---- MODULE Spec2Model ----
(***************************************************************************)
(* A model of quiz/types.py: the SelectionSet builder and its rendering,   *)
(* the validation of selections against the built classes, and            *)
(* build_schema.                                                           *)
(*                                                                         *)
(* Python values are modelled as follows.                                  *)
(*   - a SelectionSet is the tuple it holds in __selections__: a sequence  *)
(*     of Field records;                                                   *)
(*   - SelectionSet objects live in `heap`, and an object is named by its  *)
(*     index there, so that "the receiver is unchanged" is a statement     *)
(*     about heap[a] and not a triviality about values;                    *)
(*   - a FrozenDict of keyword arguments is the sequence of its (k, v)     *)
(*     items in insertion order;                                           *)
(*   - text is a sequence of tokens; NL and INDENT are tokens.             *)
(***************************************************************************)
EXTENDS Integers, Sequences, FiniteSets, TLC

VARIABLES heap, last, vreq, vres, bs

vars == <<heap, last, vreq, vres, bs>>

\* ------------------------------------------------------------------ bounds

\* the number of SelectionSet objects a behaviour allocates
MaxHeap == 5

\* the longest selection sequence a built SelectionSet may have
MaxLen == 2

\* ---------------------------------------------------------- small helpers

Last(s) == s[Len(s)]

Front(s) == SubSeq(s, 1, Len(s) - 1)

RECURSIVE Flatten(_)
Flatten(ss) == IF ss = <<>> THEN <<>> ELSE Head(ss) \o Flatten(Tail(ss))

\* str.join: the parts with sep between them
RECURSIVE Join(_, _)
Join(sep, parts) ==
    IF parts = <<>> THEN <<>>
    ELSE IF Len(parts) = 1 THEN Head(parts)
    ELSE Head(parts) \o sep \o Join(sep, Tail(parts))

Range(s) == {s[i] : i \in DOMAIN s}

\* ------------------------------------------------------------ argument values

\* host values a caller can pass as keyword arguments
VInt(n) == [t |-> "int", i |-> n, s |-> ""]

VStr(x) == [t |-> "str", i |-> 0, s |-> x]

VBool(b) == [t |-> "bool", i |-> IF b THEN 1 ELSE 0, s |-> ""]

VNone == [t |-> "NoneType", i |-> 0, s |-> ""]

\* a member of an enum class; s is the member's value
VEnum(cls, member) == [t |-> cls, i |-> 0, s |-> member]

\* a host list; its elements do not matter to any check of the module
VList == [t |-> "list", i |-> 0, s |-> ""]

\* ------------------------------------------------------------ Field, selector

NoKwargs == <<>>

Field(name) == [name |-> name, kwargs |-> NoKwargs, selection_set |-> <<>>]

selector == <<>>

\* --------------------------------------------------- the SelectionSet builder

\* what a builder call hands back: the heap after it, and how it ended
Returned(h, idx) ==
    [heap |-> h, outcome |-> "returned", error |-> "", result |-> idx,
     value |-> "SelectionSet"]

Raised(h, err) ==
    [heap |-> h, outcome |-> "raised", error |-> err, result |-> 0, value |-> ""]

\* cls(*selections): a new SelectionSet object holding the tuple
_make(h, selections) == Returned(Append(h, selections), Len(h) + 1)

\* names Python's ordinary attribute lookup finds on a SelectionSet, so that
\* __getattr__ is never asked for them
SelectionSetAttributes == {"_make", "__selections__"}

\* a.name: the attribute found by ordinary lookup, or else __getattr__(name)
SelectionSet_getattr(h, a, name) ==
    IF name \in SelectionSetAttributes
    THEN [heap |-> h, outcome |-> "returned", error |-> "", result |-> 0,
          value |-> "attribute"]
    ELSE _make(h, h[a] \o <<Field(name)>>)

\* dataclasses.replace(target, selection_set=...)
replace_selection_set(target, selection_set) ==
    [target EXCEPT !.selection_set = selection_set]

\* dataclasses.replace(target, kwargs=FrozenDict(kwargs))
replace_kwargs(target, kwargs) == [target EXCEPT !.kwargs = kwargs]

\* the same call without the except clause: unpacking an empty tuple is a
\* ValueError, which is then the failure the caller sees
SelectionSet_getitem_unguarded(h, a, j) ==
    IF h[a] = <<>> THEN Raised(h, "ValueError")
    ELSE IF ~(Len(h[j]) >= 1) THEN Raised(h, "AssertionError")
    ELSE _make(h, Front(h[a]) \o <<replace_selection_set(Last(h[a]), h[j])>>)

\* a[selection_set], selection_set being the object heap[j]
SelectionSet_getitem(h, a, j) ==
    IF h[a] = <<>> THEN Raised(h, "Error")
    ELSE IF ~(Len(h[j]) >= 1) THEN Raised(h, "AssertionError")
    ELSE _make(h, Front(h[a]) \o <<replace_selection_set(Last(h[a]), h[j])>>)

Keys(kwargs) == {kwargs[i].k : i \in DOMAIN kwargs}

\* the same call, building the last element anew from its name and the arguments
SelectionSet_call_fresh(h, a, kwargs) ==
    IF h[a] = <<>> THEN Raised(h, "Error")
    ELSE _make(h, Front(h[a]) \o <<replace_kwargs(Field(Last(h[a]).name), kwargs)>>)

\* a(**kwargs). The method's own parameter is named self, so the mapping it
\* receives never has that key: Python refuses such a call before the body runs.
SelectionSet_call(h, a, kwargs) ==
    IF h[a] = <<>> THEN Raised(h, "Error")
    ELSE _make(h, Front(h[a]) \o <<replace_kwargs(Last(h[a]), kwargs)>>)

\* ------------------------------------------------------------------ rendering

INDENT == <<"  ">>

NL == <<"\n">>

Digit(d) ==
    CASE d = 0 -> "0" [] d = 1 -> "1" [] d = 2 -> "2" [] d = 3 -> "3" [] d = 4 -> "4"
      [] d = 5 -> "5" [] d = 6 -> "6" [] d = 7 -> "7" [] d = 8 -> "8" [] d = 9 -> "9"

RECURSIVE Digits(_)
Digits(n) == IF n < 10 THEN <<Digit(n)>> ELSE Digits(n \div 10) \o <<Digit(n % 10)>>

\* str(int): decimal text, of any width
int_str(n) == IF n < 0 THEN <<"-">> \o Digits(-n) ELSE Digits(n)

\* the value kinds the singledispatch function has an encoder for
Encodable(v) == v.t \notin {"list", "float"}

\* argument_as_gql, by the kind of the value
argument_as_gql(v) ==
    CASE v.t = "str" -> <<"\"", v.s, "\"">>
      [] v.t = "int" -> int_str(v.i)
      [] v.t = "NoneType" -> <<"null">>
      [] v.t = "bool" -> IF v.i = 1 THEN <<"true">> ELSE <<"false">>
      [] OTHER -> <<v.s>>

\* str.splitlines(True): the lines of a text, each keeping its line break
RECURSIVE splitlines(_, _)
splitlines(text, cur) ==
    IF text = <<>> THEN (IF cur = <<>> THEN <<>> ELSE <<cur>>)
    ELSE IF Head(text) = "\n" THEN <<Append(cur, "\n")>> \o splitlines(Tail(text), <<>>)
    ELSE splitlines(Tail(text), Append(cur, Head(text)))

\* line.strip() is empty
Blank(line) == \A i \in DOMAIN line : line[i] \in {" ", "  ", "\n"}

\* the prefix put before the text and nowhere else
indent_first(text, prefix) == prefix \o text

\* textwrap.indent: prefix before every line that is not blank
indent(text, prefix) ==
    LET lines == splitlines(text, <<>>)
    IN  Flatten([i \in DOMAIN lines |->
                    IF Blank(lines[i]) THEN lines[i] ELSE prefix \o lines[i]])

RECURSIVE Field_gql(_), SelectionSet_gql(_)
Field_gql(f) ==
    LET arguments ==
            IF f.kwargs # <<>>
            THEN <<"(">>
                 \o Join(<<", ">>, [i \in DOMAIN f.kwargs |->
                        <<f.kwargs[i].k, ": ">> \o argument_as_gql(f.kwargs[i].v)])
                 \o <<")">>
            ELSE <<>>
        selection_set ==
            IF f.selection_set # <<>>
            THEN <<" ">> \o SelectionSet_gql(f.selection_set)
            ELSE <<>>
    IN  <<f.name>> \o arguments \o selection_set

SelectionSet_gql(s) ==
    IF s # <<>>
    THEN <<"{">> \o NL
         \o Join(NL, [i \in DOMAIN s |-> indent(Field_gql(s[i]), INDENT)])
         \o NL \o <<"}">>
    ELSE <<>>

\* every argument value of the tree has an encoder
RECURSIVE AllEncodable(_)
AllEncodable(s) ==
    \A i \in DOMAIN s :
        /\ \A n \in DOMAIN s[i].kwargs : Encodable(s[i].kwargs[n].v)
        /\ AllEncodable(s[i].selection_set)

\* gql(obj): the text, or the TypeError of the dispatch's default
gql(s) ==
    IF AllEncodable(s) THEN [outcome |-> "returned", error |-> "", text |-> SelectionSet_gql(s)]
    ELSE [outcome |-> "raised", error |-> "TypeError", text |-> <<>>]

\* ------------------------------------------------------- the schema's input

\* schema.TypeRef: NON_NULL and LIST wrap of_type, the other kinds name a type
NoRef == <<>>

Named(kind, name) == [kind |-> kind, name |-> name, of_type |-> NoRef]

NonNull(ref) == [kind |-> "NON_NULL", name |-> "", of_type |-> <<ref>>]

ListOf(ref) == [kind |-> "LIST", name |-> "", of_type |-> <<ref>>]

\* schema.InputValue and schema.Field
Arg(name, ref) == [name |-> name, type |-> ref]

FieldDef(name, ref, args) == [name |-> name, type |-> ref, args |-> args]

\* schema.Scalar, Interface, Enum, Object, Union, InputObject
TypeDef(kind, name) ==
    [kind |-> kind, name |-> name, interfaces |-> <<>>, fields |-> <<>>,
     values |-> <<>>, types |-> <<>>]

ScalarInt == TypeDef("Scalar", "Int")

ScalarMoney == TypeDef("Scalar", "Money")

ScalarDate == TypeDef("Scalar", "Date")

InterfaceNode ==
    [TypeDef("Interface", "Node") EXCEPT !.fields =
        << FieldDef("id", NonNull(Named("SCALAR", "ID")), <<>>),
           FieldDef("next", Named("INTERFACE", "Node"), <<>>) >>]

EnumColor == [TypeDef("Enum", "Color") EXCEPT !.values = <<"RED", "GREEN">>]

ObjectA ==
    [TypeDef("Object", "A") EXCEPT
        !.interfaces = <<"Node">>,
        !.fields =
        << FieldDef("id", NonNull(Named("SCALAR", "ID")), <<>>),
           FieldDef("self", Named("OBJECT", "A"), <<>>),
           FieldDef("bs", NonNull(ListOf(NonNull(Named("OBJECT", "B")))), <<>>),
           FieldDef("name", Named("SCALAR", "String"), <<>>),
           FieldDef("f", Named("SCALAR", "Int"),
                    << Arg("flag", NonNull(Named("SCALAR", "Boolean"))),
                       Arg("n", NonNull(Named("SCALAR", "Int"))) >>),
           FieldDef("g", NonNull(Named("ENUM", "Color")),
                    << Arg("o", Named("SCALAR", "Int")),
                       Arg("c", NonNull(Named("ENUM", "Color"))),
                       Arg("ids", ListOf(NonNull(Named("SCALAR", "Int")))) >>) >>]

ObjectB ==
    [TypeDef("Object", "B") EXCEPT !.fields =
        << FieldDef("a", NonNull(Named("OBJECT", "A")), <<>>),
           FieldDef("u", Named("UNION", "U"), <<>>),
           FieldDef("price", Named("SCALAR", "Money"), <<>>) >>]

UnionU == [TypeDef("Union", "U") EXCEPT !.types = <<"A", "B">>]

InputObjectIn == TypeDef("InputObject", "In")

\* the definitions an input is drawn from
Pool ==
    << ScalarInt, ScalarMoney, ScalarDate, InterfaceNode, EnumColor, ObjectA,
       ObjectB, UnionU, InputObjectIn >>

\* the caller's custom scalars: name -> host type
CustomMoney == <<[key |-> "Money", val |-> [k |-> "host", id |-> 0, name |-> "float", args |-> <<>>]]>>

\* ------------------------------------------------------------ dictionaries

\* a dict is the sequence of its items in insertion order, its keys unique
DictKeys(d) == {d[i].key : i \in DOMAIN d}

DictGet(d, key) == d[CHOOSE i \in DOMAIN d : d[i].key = key].val

DictSet(d, key, val) ==
    IF key \in DictKeys(d)
    THEN [i \in DOMAIN d |-> IF d[i].key = key THEN [key |-> key, val |-> val] ELSE d[i]]
    ELSE Append(d, [key |-> key, val |-> val])

DictValues(d) == [i \in DOMAIN d |-> d[i].val]

\* dict(items): later items replace earlier ones of the same key
RECURSIVE DictOf(_)
DictOf(items) ==
    IF items = <<>> THEN <<>>
    ELSE DictSet(DictOf(Front(items)), Last(items).key, Last(items).val)

\* a ChainMap is the sequence of its layers; the first layer with the key wins
ChainKeys(layers) == UNION {DictKeys(layers[i]) : i \in DOMAIN layers}

ChainGet(layers, key) ==
    DictGet(layers[CHOOSE i \in DOMAIN layers :
                      /\ key \in DictKeys(layers[i])
                      /\ \A j \in 1 .. (i - 1) : key \notin DictKeys(layers[j])], key)

\* ------------------------------------------------------------ runtime types

\* a host type: bool, str, ID, float, int, NoneType
Host(name) == [k |-> "host", id |-> 0, name |-> name, args |-> <<>>]

\* a class made from a schema definition, named by its place among the classes
Class(id) == [k |-> "class", id |-> id, name |-> "", args |-> <<>>]

\* typing.Union[args], of two members or more, with the __name__ it was given
UnionOf(name, args) == [k |-> "union", id |-> 0, name |-> name, args |-> args]

\* typing.Optional[x]
Optional(x) == [k |-> "optional", id |-> 0, name |-> "", args |-> <<x>>]

\* typing.List[x]
ListT(x) == [k |-> "list", id |-> 0, name |-> "", args |-> <<x>>]

BUILTIN_SCALARS ==
    << [key |-> "Boolean", val |-> Host("bool")],
       [key |-> "String", val |-> Host("str")],
       [key |-> "ID", val |-> Host("ID")],
       [key |-> "Float", val |-> Host("float")],
       [key |-> "Int", val |-> Host("int")] >>

\* every absent argument is asked for, optional or not
_is_optional_never(typ) == FALSE

\* typ.__origin__ is Union and NoneType in typ.__args__
_is_optional(typ) == typ.k = "optional"

\* Optional and List stripped, to any depth
RECURSIVE _unwrap_type(_)
_unwrap_type(type_) ==
    IF _is_optional(type_) THEN _unwrap_type(type_.args[1])
    ELSE IF type_.k = "list" THEN _unwrap_type(type_.args[1])
    ELSE type_

\* the __args__ of a Union (Optional[X] is Union[X, None], flattened), else the type
_unwrap_union(type_) ==
    IF type_.k = "optional"
    THEN (IF type_.args[1].k = "union" THEN type_.args[1].args ELSE type_.args)
         \o <<Host("NoneType")>>
    ELSE IF type_.k = "union" THEN type_.args
    ELSE <<type_>>

\* ------------------------------------------------------------- build_schema

NoSchema == TypeDef("", "")

NoError == [type |-> "", names |-> {}, key |-> ""]

\* a class object: type(name, bases, {"__doc__": ..., "__schema__": typ})
NewClass(kind, typ, bases) ==
    [name |-> typ.name, kind |-> kind, bases |-> bases, has_schema |-> TRUE,
     schema |-> typ, fields |-> <<>>, members |-> typ.values]

\* the state of one call of build_schema
BuildStart(types, scalars) ==
    [pc |-> "check", types |-> types, scalars |-> scalars, interfaces |-> <<>>,
     enums |-> <<>>, objs |-> <<>>, unions |-> <<>>, input_objects |-> <<>>,
     classes |-> <<>>, cls |-> <<>>, todo |-> <<>>, error |-> NoError,
     returned |-> FALSE]

by_kind(types, kind) == SelectSeq(types, LAMBDA tp : tp.kind = kind)

\* the check against the caller's scalars alone
undefined_scalars_custom_only(b) ==
    {tp.name : tp \in Range(by_kind(b.types, "Scalar"))} \ DictKeys(b.scalars)

undefined_scalars(b) ==
    {tp.name : tp \in Range(by_kind(b.types, "Scalar"))}
        \ ChainKeys(<<b.scalars, BUILTIN_SCALARS>>)

\* lines 441-451: partition, and fail on the scalars nobody defines
CheckScalarsStep(b) ==
    IF undefined_scalars(b) # {}
    THEN [b EXCEPT !.pc = "raised",
                   !.error = [type |-> "Exception", names |-> undefined_scalars(b),
                              key |-> ""]]
    ELSE [b EXCEPT !.pc = "interfaces"]

\* _namedict over classes made one after another at the end of the heap
ShellDict(defs, first) ==
    DictOf([i \in DOMAIN defs |-> [key |-> defs[i].name, val |-> Class(first + i)]])

\* line 453
InterfacesStep(b) ==
    LET defs == by_kind(b.types, "Interface")
    IN  [b EXCEPT !.cls = b.cls \o [i \in DOMAIN defs |-> NewClass("interface", defs[i], <<>>)],
                  !.interfaces = ShellDict(defs, Len(b.cls)),
                  !.pc = "enums"]

\* Enum(typ.name, {v.name: v.name for v in typ.values})
enum_as_type(typ) ==
    [NewClass("enum", typ, <<>>) EXCEPT !.has_schema = FALSE, !.schema = NoSchema]

\* line 454
EnumsStep(b) ==
    LET defs == by_kind(b.types, "Enum")
    IN  [b EXCEPT !.cls = b.cls \o [i \in DOMAIN defs |-> enum_as_type(defs[i])],
                  !.enums = ShellDict(defs, Len(b.cls)),
                  !.pc = "objs"]

\* the names of a sequence that are not among the keys, in order
Missing(names, keys) == SelectSeq(names, LAMBDA n : n \notin keys)

\* how many leading entries of a sequence of name lists name keys only
RECURSIVE GoodCount(_, _)
GoodCount(refs, keys) ==
    IF refs = <<>> \/ Missing(Head(refs), keys) # <<>> THEN 0
    ELSE 1 + GoodCount(Tail(refs), keys)

\* lines 455-458: every object with its interfaces' classes as bases
ObjectsStep(b) ==
    LET defs == by_kind(b.types, "Object")
        good == SubSeq(defs, 1, GoodCount([i \in DOMAIN defs |-> defs[i].interfaces],
                                          DictKeys(b.interfaces)))
        made == [i \in DOMAIN good |->
                    NewClass("object", good[i],
                             [n \in DOMAIN good[i].interfaces |->
                                 DictGet(b.interfaces, good[i].interfaces[n]).id])]
    IN  IF Len(good) < Len(defs)
        THEN [b EXCEPT !.cls = b.cls \o made,
                       !.pc = "raised",
                       !.error = [type |-> "KeyError", names |-> {},
                                  key |-> Head(Missing(defs[Len(good) + 1].interfaces,
                                                       DictKeys(b.interfaces)))]]
        ELSE [b EXCEPT !.cls = b.cls \o made,
                       !.objs = ShellDict(defs, Len(b.cls)),
                       !.pc = "unions"]

\* a sequence without its repeats, the first of each kept
RECURSIVE Dedupe(_)
Dedupe(s) ==
    IF s = <<>> THEN <<>>
    ELSE LET d == Dedupe(Front(s))
         IN  IF Last(s) \in Range(d) THEN d ELSE Append(d, Last(s))

\* union_as_type over the definitions in turn; Union[X] of one member is X
\* itself, which then takes the union's __name__
RECURSIVE UnionFold(_, _)
UnionFold(defs, acc) ==
    IF defs = <<>> THEN acc
    ELSE LET typ == Head(defs)
             absent == Missing(typ.types, DictKeys(acc.objs))
             members == Dedupe([i \in DOMAIN typ.types |-> DictGet(acc.objs, typ.types[i])])
         IN  IF absent # <<>>
             THEN [acc EXCEPT !.error = [type |-> "KeyError", names |-> {},
                                         key |-> Head(absent)]]
             ELSE IF members = <<>>
             THEN [acc EXCEPT !.error = [type |-> "TypeError", names |-> {}, key |-> ""]]
             ELSE IF Len(members) = 1
             THEN UnionFold(Tail(defs),
                    [acc EXCEPT !.cls[members[1].id].name = typ.name,
                                !.items = Append(acc.items,
                                            [key |-> typ.name, val |-> members[1]])])
             ELSE UnionFold(Tail(defs),
                    [acc EXCEPT !.items = Append(acc.items,
                                            [key |-> typ.name,
                                             val |-> UnionOf(typ.name, members)])])

\* lines 459-462
UnionsStep(b) ==
    LET r == UnionFold(by_kind(b.types, "Union"),
                       [cls |-> b.cls, objs |-> b.objs, items |-> <<>>, error |-> NoError])
    IN  IF r.error # NoError
        THEN [b EXCEPT !.cls = r.cls, !.pc = "raised", !.error = r.error]
        ELSE [b EXCEPT !.cls = r.cls, !.unions = DictOf(r.items), !.pc = "input_objects"]

\* type(typ.name, (), {"__doc__": typ.desc})
inputobject_as_type(typ) ==
    [NewClass("inputobject", typ, <<>>) EXCEPT !.has_schema = FALSE, !.schema = NoSchema]

\* lines 463-466
InputObjectsStep(b) ==
    LET defs == by_kind(b.types, "InputObject")
    IN  [b EXCEPT !.cls = b.cls \o [i \in DOMAIN defs |-> inputobject_as_type(defs[i])],
                  !.input_objects = ShellDict(defs, Len(b.cls)),
                  !.pc = "classes"]

\* the registry without the layer of the objects
ChainMapNoObjects(b) ==
    <<b.scalars, BUILTIN_SCALARS, b.interfaces, b.enums, b.unions, b.input_objects>>

\* ChainMap(ChainMap(scalars, BUILTIN_SCALARS), interfaces, enums, objs, unions,
\* input_objects)
ChainMapOfAll(b) ==
    <<b.scalars, BUILTIN_SCALARS, b.interfaces, b.enums, b.objs, b.unions,
      b.input_objects>>

\* lines 468-473: the registry, and the classes whose fields are to be added
ClassesStep(b) ==
    [b EXCEPT !.classes = ChainMapOfAll(b),
              !.todo = DictValues(b.objs) \o DictValues(b.interfaces),
              !.pc = "fields"]

\* the name a TypeRef comes down to under its NON_NULL and LIST wrappers
RECURSIVE RefName(_)
RefName(ref) == IF ref.kind \in {"NON_NULL", "LIST"} THEN RefName(ref.of_type[1]) ELSE ref.name

RECURSIVE resolve_typeref(_, _), _resolve_typeref_required(_, _)
resolve_typeref(ref, classes) ==
    IF ref.kind = "NON_NULL" THEN _resolve_typeref_required(ref.of_type[1], classes)
    ELSE Optional(_resolve_typeref_required(ref, classes))

_resolve_typeref_required(ref, classes) ==
    IF ref.kind = "LIST" THEN ListT(resolve_typeref(ref.of_type[1], classes))
    ELSE ChainGet(classes, ref.name)

\* the names a field's FieldSchema looks up, in the order it looks them up
FieldRefs(f) == [i \in DOMAIN f.args |-> RefName(f.args[i].type)] \o <<RefName(f.type)>>

FieldSchema(f, classes) ==
    [name |-> f.name,
     type |-> resolve_typeref(f.type, classes),
     args |-> [i \in DOMAIN f.args |->
                 [name |-> f.args[i].name,
                  type |-> resolve_typeref(f.args[i].type, classes)]]]

\* setattr(obj, f.name, FieldSchema(...)) for the fields in turn
RECURSIVE SetFields(_, _, _)
SetFields(fields, classes, attrs) ==
    IF fields = <<>> THEN attrs
    ELSE SetFields(Tail(fields), classes,
                   DictSet(attrs, Head(fields).name, FieldSchema(Head(fields), classes)))

\* _add_fields(obj, classes), obj being the class cls[id]: the fields set up to
\* the first one that names a type the registry does not have, and __schema__
\* deleted when there is no such field
_add_fields(cls, id, classes) ==
    LET fields == cls[id].schema.fields
        refs == [i \in DOMAIN fields |-> FieldRefs(fields[i])]
        n == GoodCount(refs, ChainKeys(classes))
        attrs == SetFields(SubSeq(fields, 1, n), classes, cls[id].fields)
    IN  IF n < Len(fields)
        THEN [cls |-> [cls EXCEPT ![id].fields = attrs],
              error |-> [type |-> "KeyError", names |-> {},
                         key |-> Head(Missing(refs[n + 1], ChainKeys(classes)))]]
        ELSE [cls |-> [cls EXCEPT ![id].fields = attrs, ![id].has_schema = FALSE,
                                  ![id].schema = NoSchema],
              error |-> NoError]

\* line 474, for the next class of the chain
AddFieldsStep(b) ==
    LET r == _add_fields(b.cls, Head(b.todo).id, b.classes)
    IN  IF r.error # NoError
        THEN [b EXCEPT !.cls = r.cls, !.pc = "raised", !.error = r.error]
        ELSE [b EXCEPT !.cls = r.cls, !.todo = Tail(b.todo)]

\* line 476
ReturnStep(b) == [b EXCEPT !.pc = "done", !.returned = TRUE]

BuildStep(b) ==
    CASE b.pc = "check" -> CheckScalarsStep(b)
      [] b.pc = "interfaces" -> InterfacesStep(b)
      [] b.pc = "enums" -> EnumsStep(b)
      [] b.pc = "objs" -> ObjectsStep(b)
      [] b.pc = "unions" -> UnionsStep(b)
      [] b.pc = "input_objects" -> InputObjectsStep(b)
      [] b.pc = "classes" -> ClassesStep(b)
      [] b.pc = "fields" /\ b.todo # <<>> -> AddFieldsStep(b)
      [] b.pc = "fields" /\ b.todo = <<>> -> ReturnStep(b)

\* build_schema(types, scalars), run to its end
RECURSIVE RunBuild(_)
RunBuild(b) == IF b.pc \in {"done", "raised"} THEN b ELSE RunBuild(BuildStep(b))

build_schema(types, scalars) == RunBuild(BuildStart(types, scalars))

\* ------------------------------------------------------------- validation

\* what a check raises, or nothing (err = "")
Failure(err, on, field, name, value) ==
    [err |-> err, on |-> on, field |-> field, name |-> name, value |-> value]

Passed == Failure("", Host(""), "", "", VNone)

\* names Python finds on every class, whatever the schema says
PyClassAttributes == {"__doc__", "__name__", "mro"}

\* names Python finds on the host types of the scalars
HostAttributes(host) ==
    IF host \in {"str", "ID"} THEN {"__doc__", "upper"}
    ELSE IF host \in {"int", "bool", "float"} THEN {"__doc__", "real"}
    ELSE {"__doc__"}

\* the class, among cls[id] and its bases in order, that has the field set on it
FieldOwners(cls, id, name) ==
    SelectSeq(<<id>> \o cls[id].bases, LAMBDA c : name \in DictKeys(cls[c].fields))

\* getattr(parent, name): whether it is there, and the FieldSchema if it is one
getattr_(cls, parent, name) ==
    IF parent.k = "class" /\ FieldOwners(cls, parent.id, name) # <<>>
    THEN [found |-> TRUE, is_field |-> TRUE,
          schema |-> DictGet(cls[Head(FieldOwners(cls, parent.id, name))].fields, name)]
    ELSE [found |-> CASE parent.k = "class" ->
                            name \in PyClassAttributes \cup Range(cls[parent.id].members)
                      [] parent.k = "host" -> name \in HostAttributes(parent.name)
                      [] OTHER -> name \in {"__doc__", "__name__"},
          is_field |-> FALSE,
          schema |-> [name |-> "", type |-> Host(""), args |-> <<>>]]

\* isinstance(value, type_) for one type; a subscripted generic refuses the check
InstanceOfOne(cls, value, type_) ==
    CASE type_.k = "list" -> "TypeError"
      [] type_.k = "host" /\ type_.name = "int" -> IF value.t \in {"int", "bool"} THEN "True" ELSE "False"
      [] type_.k = "host" /\ type_.name = "str" -> IF value.t \in {"str", "ID"} THEN "True" ELSE "False"
      [] type_.k = "host" /\ type_.name \notin {"int", "str"} ->
            IF value.t = type_.name THEN "True" ELSE "False"
      [] type_.k = "class" -> IF value.t = cls[type_.id].name THEN "True" ELSE "False"
      [] OTHER -> "TypeError"

\* isinstance(value, types) for a tuple of types, tried in order
RECURSIVE InstanceOfAny(_, _, _)
InstanceOfAny(cls, value, types) ==
    IF types = <<>> THEN "False"
    ELSE LET r == InstanceOfOne(cls, value, Head(types))
         IN  IF r = "False" THEN InstanceOfAny(cls, value, Tail(types)) ELSE r

KwargsGet(kwargs, key) == kwargs[CHOOSE i \in DOMAIN kwargs : kwargs[i].k = key].v

\* the loop of _check_args over field.args.values(), from the i-th on
RECURSIVE CheckParams(_, _, _, _, _)
CheckParams(cls, parent, field, kwargs, i) ==
    IF i > Len(field.args) THEN Passed
    ELSE LET param == field.args[i]
         IN  IF param.name \notin Keys(kwargs)
             THEN IF ~_is_optional(param.type)
                  THEN Failure("MissingArgument", parent, field.name, param.name, VNone)
                  ELSE CheckParams(cls, parent, field, kwargs, i + 1)
             ELSE LET value == KwargsGet(kwargs, param.name)
                      r == InstanceOfAny(cls, value, _unwrap_union(param.type))
                  IN  IF r = "TypeError"
                      THEN Failure("TypeError", Host(""), "", "", VNone)
                      ELSE IF r = "False"
                      THEN Failure("InvalidArgumentType", parent, field.name,
                                   param.name, value)
                      ELSE CheckParams(cls, parent, field, kwargs, i + 1)

\* _check_args: the failures it may raise (set.pop() picks any unknown key), or Passed
_check_args(cls, parent, field, kwargs) ==
    LET invalid_args == Keys(kwargs) \ {field.args[i].name : i \in DOMAIN field.args}
    IN  IF invalid_args # {}
        THEN {Failure("NoSuchArgument", parent, field.name, n, VNone) : n \in invalid_args}
        ELSE {CheckParams(cls, parent, field, kwargs, 1)}

\* one call of _check_field, as the validation's trace keeps it
Visit(parent, field, raised) ==
    [parent |-> parent, name |-> field.name, kwargs |-> field.kwargs,
     nested |-> field.selection_set # <<>>, raised |-> raised]

\* _check_field and the loop over a selection set: the runs they may take, each
\* the failure that ends it (or Passed) and the calls of _check_field made
RECURSIVE _check_field(_, _, _), CheckSelections(_, _, _)
_check_field(cls, parent, field) ==
    LET at == getattr_(cls, parent, field.name)
    IN  IF ~at.found
        THEN LET e == Failure("NoSuchField", parent, "", field.name, VNone)
             IN  {[out |-> e, trace |-> <<Visit(parent, field, e)>>]}
        ELSE IF ~at.is_field
        THEN LET e == Failure("AttributeError", Host(""), "", "", VNone)
             IN  {[out |-> e, trace |-> <<Visit(parent, field, e)>>]}
        ELSE UNION {
               IF e.err # ""
               THEN {[out |-> e, trace |-> <<Visit(parent, field, e)>>]}
               ELSE {[out |-> r.out, trace |-> <<Visit(parent, field, e)>> \o r.trace] :
                       r \in CheckSelections(cls, _unwrap_type(at.schema.type),
                                             field.selection_set)}
               : e \in _check_args(cls, parent, at.schema, field.kwargs) }

CheckSelections(cls, parent, selection_set) ==
    IF selection_set = <<>> THEN {[out |-> Passed, trace |-> <<>>]}
    ELSE UNION {
           IF r.out.err # "" THEN {r}
           ELSE {[out |-> r2.out, trace |-> r.trace \o r2.trace] :
                   r2 \in CheckSelections(cls, parent, Tail(selection_set))}
           : r \in _check_field(cls, parent, Head(selection_set)) }

\* query(selection_set, cls): an Operation, or the failure
query(cls, selection_set, root) ==
    {r @@ [returned |-> IF r.out.err = "" THEN "Operation" ELSE ""] :
        r \in CheckSelections(cls, root, selection_set)}

\* ObjectMeta.__getitem__(self, selection_set): an InlineFragment, or the failure
ObjectMeta_getitem(cls, root, selection_set) ==
    {r @@ [returned |-> IF r.out.err = "" THEN "InlineFragment" ELSE ""] :
        r \in CheckSelections(cls, root, selection_set)}

\* ------------------------------------------- the builder's calls, as actions

\* field names a caller selects
FieldNames == {"user", "name", "_make"}

\* keyword arguments a caller passes
KwargsChoices ==
    { <<>>,
      <<[k |-> "id", v |-> VInt(1)]>>,
      <<[k |-> "s", v |-> VStr("x")], [k |-> "n", v |-> VInt(-12)],
        [k |-> "b", v |-> VBool(TRUE)], [k |-> "a", v |-> VNone],
        [k |-> "e", v |-> VEnum("Color", "RED")]>> }

NoCall ==
    [op |-> "none", recv |-> 0, before |-> <<>>, name |-> "", kwargs |-> <<>>,
     nested |-> 0, outcome |-> "none", error |-> "", result |-> 0, value |-> "",
     text |-> <<>>, heaplen |-> 0]

CallRecord(op, a, r) ==
    [NoCall EXCEPT !.op = op, !.recv = a, !.before = heap[a],
                   !.heaplen = Len(heap),
                   !.outcome = r.outcome, !.error = r.error]

\* the caller keeps within the bounds, and builds each value once
WithinBounds(r) ==
    /\ Len(r.heap) <= MaxHeap
    /\ \A i \in DOMAIN r.heap : Len(r.heap[i]) <= MaxLen
    /\ r.result # 0 => r.heap[r.result] \notin Range(heap)

GetAttr(a, name) ==
    LET r == SelectionSet_getattr(heap, a, name)
    IN  /\ WithinBounds(r)
        /\ heap' = r.heap
        /\ last' = [CallRecord("getattr", a, r) EXCEPT
                        !.name = name, !.result = r.result, !.value = r.value]
        /\ UNCHANGED <<vreq, vres, bs>>

GetItem(a, j) ==
    LET r == SelectionSet_getitem(heap, a, j)
    IN  /\ WithinBounds(r)
        /\ heap' = r.heap
        /\ last' = [CallRecord("getitem", a, r) EXCEPT
                        !.nested = j, !.result = r.result, !.value = r.value]
        /\ UNCHANGED <<vreq, vres, bs>>

Call(a, kwargs) ==
    LET r == SelectionSet_call(heap, a, kwargs)
    IN  /\ WithinBounds(r)
        /\ heap' = r.heap
        /\ last' = [CallRecord("call", a, r) EXCEPT
                        !.kwargs = kwargs, !.result = r.result, !.value = r.value]
        /\ UNCHANGED <<vreq, vres, bs>>

Gql(a) ==
    LET r == gql(heap[a])
    IN  /\ heap' = heap
        /\ last' = [CallRecord("gql", a, r) EXCEPT !.text = r.text]
        /\ UNCHANGED <<vreq, vres, bs>>

Idle == [none |-> TRUE]

Init ==
    /\ heap = <<selector>>
    /\ last = NoCall
    /\ vreq = Idle
    /\ vres = Idle
    /\ bs = Idle

\* a caller chains its calls: each is made on the selector or on the newest object
Receivers == {1, Len(heap)}

Next ==
    \/ \E a \in Receivers, name \in FieldNames : GetAttr(a, name)
    \/ \E a \in Receivers, j \in DOMAIN heap : GetItem(a, j)
    \/ \E a \in Receivers, kwargs \in KwargsChoices : Call(a, kwargs)
    \/ \E a \in DOMAIN heap : Gql(a)

Spec == Init /\ [][Next]_vars

\* ------------------------------------------------- the builder's properties

\* C5: after b = a.x, a is unchanged and b's selections are a's followed by
\* Field(x) with no arguments and no nested selections, for every name x.
C5_SelectAppendsField ==
    last.op = "getattr" =>
        /\ heap[last.recv] = last.before
        /\ last.value = "SelectionSet"
        /\ last.result \in DOMAIN heap
        /\ heap[last.result] = last.before \o
             <<[name |-> last.name, kwargs |-> <<>>, selection_set |-> <<>>]>>

\* C6: a(**kwargs) and a[nested] on a SelectionSet of no elements raise Error and
\* return nothing; a[nested] with nested empty raises too; the receiver is as it was.
C6_EmptyGuards ==
    /\ (last.op \in {"call", "getitem"} /\ last.before = <<>>) =>
            (last.outcome = "raised" /\ last.error = "Error" /\ last.result = 0)
    /\ (last.op = "getitem" /\ last.before # <<>> /\ heap[last.nested] = <<>>) =>
            (last.outcome = "raised" /\ last.result = 0)
    /\ (last.op \in {"call", "getitem"} /\ last.outcome = "raised") =>
            (heap[last.recv] = last.before /\ Len(heap) = last.heaplen)

C6_Witness ==
    /\ last.op = "getitem"
    /\ last.before # <<>>
    /\ heap[last.nested] = <<>>
    /\ last.outcome = "raised"

Indentation(level) == [i \in 1 .. level |-> "  "]

RECURSIVE RefField(_, _), RefSelectionSet(_, _)
RefField(f, level) ==
    <<f.name>>
    \o (IF f.kwargs = <<>> THEN <<>>
        ELSE <<"(">>
             \o Join(<<", ">>, [i \in DOMAIN f.kwargs |->
                    <<f.kwargs[i].k, ": ">> \o argument_as_gql(f.kwargs[i].v)])
             \o <<")">>)
    \o (IF f.selection_set = <<>> THEN <<>>
        ELSE <<" ">> \o RefSelectionSet(f.selection_set, level))

RefSelectionSet(s, level) ==
    IF s = <<>> THEN <<>>
    ELSE <<"{", "\n">>
         \o Join(<<"\n">>, [i \in DOMAIN s |->
                Indentation(level + 1) \o RefField(s[i], level + 1)])
         \o <<"\n">> \o Indentation(level) \o <<"}">>

\* select("user").withArguments({id: 1}).withSelection(select("name"))
UserTree ==
    <<[name |-> "user", kwargs |-> <<[k |-> "id", v |-> VInt(1)]>>,
       selection_set |-> <<Field("name")>>]>>

UserText ==
    <<"{", "\n",
      "  ", "user", "(", "id", ": ", "1", ")", " ", "{", "\n",
      "  ", "  ", "name", "\n",
      "  ", "}", "\n",
      "}">>

\* C8: the text of a selection tree is the rendering of section 4.4: nothing for
\* an empty set, else a braced block with one selection a line, each one level
\* (two spaces) deeper than the block; a field is its name, its arguments in
\* insertion order if it has any, and a space and its nested block if it has one.
C8_RenderingIsReference ==
    (last.op = "gql" /\ last.outcome = "returned") =>
        /\ last.text = RefSelectionSet(last.before, 0)
        /\ last.before = <<>> => last.text = <<>>
        /\ last.before = UserTree => last.text = UserText

C8_Witness ==
    /\ last.op = "gql"
    /\ last.outcome = "returned"
    /\ last.before = UserTree
    /\ last.text = UserText


\* ---------------------------------------------------- build_schema, in steps

\* the most definitions an input has
MaxTypes == 6

\* the entries of src whose places are in S, in the order of src
RECURSIVE SubSeqAt(_, _)
SubSeqAt(src, S) ==
    IF src = <<>> THEN <<>>
    ELSE SubSeqAt(Front(src), S) \o (IF Len(src) \in S THEN <<Last(src)>> ELSE <<>>)

Reverse(s) == [i \in DOMAIN s |-> s[Len(s) + 1 - i]]

\* the inputs: up to MaxTypes definitions of the pool, in its order or in reverse
Inputs ==
    {SubSeqAt(src, S) : src \in {Pool, Reverse(Pool)},
                        S \in {T \in SUBSET DOMAIN Pool : Cardinality(T) <= MaxTypes}}

ScalarChoices == {<<>>, CustomMoney}

InitSchema ==
    /\ heap = <<selector>>
    /\ last = NoCall
    /\ vreq = Idle
    /\ vres = Idle
    /\ bs \in {BuildStart(types, scalars) : types \in Inputs, scalars \in ScalarChoices}

CheckScalars ==
    /\ bs.pc = "check"
    /\ bs' = CheckScalarsStep(bs)
    /\ UNCHANGED <<heap, last, vreq, vres>>

BuildInterfaces ==
    /\ bs.pc = "interfaces"
    /\ bs' = InterfacesStep(bs)
    /\ UNCHANGED <<heap, last, vreq, vres>>

BuildEnums ==
    /\ bs.pc = "enums"
    /\ bs' = EnumsStep(bs)
    /\ UNCHANGED <<heap, last, vreq, vres>>

BuildObjects ==
    /\ bs.pc = "objs"
    /\ bs' = ObjectsStep(bs)
    /\ UNCHANGED <<heap, last, vreq, vres>>

BuildUnions ==
    /\ bs.pc = "unions"
    /\ bs' = UnionsStep(bs)
    /\ UNCHANGED <<heap, last, vreq, vres>>

BuildInputObjects ==
    /\ bs.pc = "input_objects"
    /\ bs' = InputObjectsStep(bs)
    /\ UNCHANGED <<heap, last, vreq, vres>>

AssembleClasses ==
    /\ bs.pc = "classes"
    /\ bs' = ClassesStep(bs)
    /\ UNCHANGED <<heap, last, vreq, vres>>

AddFields ==
    /\ bs.pc = "fields"
    /\ bs.todo # <<>>
    /\ bs' = AddFieldsStep(bs)
    /\ UNCHANGED <<heap, last, vreq, vres>>

Return ==
    /\ bs.pc = "fields"
    /\ bs.todo = <<>>
    /\ bs' = ReturnStep(bs)
    /\ UNCHANGED <<heap, last, vreq, vres>>

NextSchema ==
    \/ CheckScalars
    \/ BuildInterfaces
    \/ BuildEnums
    \/ BuildObjects
    \/ BuildUnions
    \/ BuildInputObjects
    \/ AssembleClasses
    \/ AddFields
    \/ Return

SpecSchema == InitSchema /\ [][NextSchema]_vars

\* ------------------------------------------------ build_schema's properties

BuiltinNames == {"Boolean", "String", "ID", "Float", "Int"}

DeclaredScalars == {bs.types[i].name : i \in {j \in DOMAIN bs.types : bs.types[j].kind = "Scalar"}}

MissingScalars == DeclaredScalars \ (BuiltinNames \cup DictKeys(bs.scalars))

\* C9: build_schema fails with the undefined-scalars failure exactly when some
\* Scalar of the input is neither builtin nor a key of the caller's scalars; the
\* one failure names all of them, nothing is returned and no type is built.
C9_UndefinedScalars ==
    bs.pc # "check" =>
        /\ (bs.error.type = "Exception") <=> (MissingScalars # {})
        /\ MissingScalars # {} =>
            /\ bs.pc = "raised"
            /\ bs.error.names = MissingScalars
            /\ ~bs.returned
            /\ bs.cls = <<>>
            /\ bs.classes = <<>>

C9_Witness ==
    /\ bs.pc = "raised"
    /\ bs.error.type = "Exception"
    /\ bs.error.names = {"Money", "Date"}
    /\ \E i \in DOMAIN bs.types : bs.types[i].name = "Int"

NamesOfKind(types, kinds) == {types[i].name : i \in {j \in DOMAIN types : types[j].kind \in kinds}}

\* every name the input uses is defined, once, by a definition of the right kind
WellFormed(types, scalars) ==
    LET known == NamesOfKind(types, {"Interface", "Enum", "Object", "Union", "InputObject"})
                    \cup BuiltinNames \cup DictKeys(scalars)
    IN  /\ \A i, j \in DOMAIN types : types[i].name = types[j].name => i = j
        /\ NamesOfKind(types, {"Scalar"}) \subseteq BuiltinNames \cup DictKeys(scalars)
        /\ NamesOfKind(types, {"Interface", "Enum", "Object", "Union", "InputObject"})
              \cap (BuiltinNames \cup DictKeys(scalars)) = {}
        /\ \A i \in DOMAIN types :
            /\ Range(types[i].interfaces) \subseteq NamesOfKind(types, {"Interface"})
            /\ Range(types[i].types) \subseteq NamesOfKind(types, {"Object"})
            /\ types[i].kind = "Union" => types[i].types # <<>>
            /\ \A n \in DOMAIN types[i].fields :
                /\ RefName(types[i].fields[n].type) \in known
                /\ \A a \in DOMAIN types[i].fields[n].args :
                       RefName(types[i].fields[n].args[a].type) \in known

\* a runtime type without its Optional and List wrappers
RECURSIVE Stripped(_)
Stripped(rt) == IF rt.k \in {"optional", "list"} THEN Stripped(rt.args[1]) ELSE rt

\* C10: a well-formed input, self- and mutually-referential types included,
\* builds; no field is resolved before every type of the input is in the
\* registry; and each field's return type, stripped of Optional and List, is the
\* registry's entry for the name the field's TypeRef names.
C10_TwoPass ==
    WellFormed(bs.types, bs.scalars) =>
        /\ bs.pc # "raised"
        /\ (\E c \in DOMAIN bs.cls : bs.cls[c].fields # <<>>) =>
              /\ bs.pc \in {"fields", "done"}
              /\ \A i \in DOMAIN bs.types : bs.types[i].name \in ChainKeys(bs.classes)
        /\ bs.pc = "done" =>
              /\ bs.returned
              /\ \A i \in DOMAIN bs.types :
                    bs.types[i].kind \in {"Object", "Interface"} =>
                        LET c == bs.cls[ChainGet(bs.classes, bs.types[i].name).id]
                        IN  \A n \in DOMAIN bs.types[i].fields :
                                LET f == bs.types[i].fields[n]
                                IN  /\ f.name \in DictKeys(c.fields)
                                    /\ Stripped(DictGet(c.fields, f.name).type)
                                         = ChainGet(bs.classes, RefName(f.type))

C10_Witness ==
    /\ bs.pc = "done"
    /\ WellFormed(bs.types, bs.scalars)
    /\ {"A", "B"} \subseteq NamesOfKind(bs.types, {"Object"})
    /\ LET a == ChainGet(bs.classes, "A")
           b == ChainGet(bs.classes, "B")
       IN  /\ DictGet(bs.cls[a.id].fields, "self").type = Optional(a)
           /\ DictGet(bs.cls[a.id].fields, "bs").type = ListT(b)
           /\ DictGet(bs.cls[b.id].fields, "a").type = a

\* ------------------------------------------------- validation, as actions

\* the deepest nesting of a validated selection
MaxDepth == 2

\* the schema the validated selections are built against
SampleTypes == SelectSeq(Pool, LAMBDA tp : tp.name # "Date")

BuiltSample == build_schema(SampleTypes, CustomMoney)

Selected(name, kwargs) == [Field(name) EXCEPT !.kwargs = kwargs]

Kw(k, v) == [k |-> k, v |-> v]

\* the fields a caller selects, before any nesting
Candidates ==
    {Field(n) : n \in {"self", "bs", "name", "next", "a", "u", "bogusField",
                       "__doc__", "mro", "upper", "RED"}}
    \cup {Selected("name", <<Kw("x", VInt(1))>>)}
    \cup {Selected("f", kw) : kw \in
            { <<>>,
              <<Kw("flag", VStr("x"))>>,
              <<Kw("flag", VBool(TRUE))>>,
              <<Kw("n", VInt(1))>>,
              <<Kw("flag", VBool(TRUE)), Kw("n", VInt(1))>>,
              <<Kw("n", VBool(FALSE)), Kw("flag", VBool(TRUE))>>,
              <<Kw("flag", VBool(TRUE)), Kw("n", VStr("x"))>>,
              <<Kw("flag", VNone), Kw("n", VInt(1))>>,
              <<Kw("flag", VBool(TRUE)), Kw("n", VInt(1)), Kw("zz", VInt(1)),
                Kw("yy", VInt(2))>> }}
    \cup {Selected("g", kw) : kw \in
            { <<Kw("c", VEnum("Color", "RED"))>>,
              <<Kw("o", VNone), Kw("c", VEnum("Color", "GREEN"))>>,
              <<Kw("o", VStr("x")), Kw("c", VEnum("Color", "RED"))>>,
              <<Kw("c", VStr("RED"))>>,
              <<Kw("o", VInt(1))>>,
              <<Kw("ids", VList)>>,
              <<Kw("c", VEnum("Color", "RED")), Kw("ids", VList)>>,
              <<Kw("c", VEnum("Color", "RED")), Kw("ids", VNone)>> }}

\* a candidate, or a candidate selecting one chain a level less deep
RECURSIVE Chains(_)
Chains(depth) ==
    IF depth <= 1 THEN Candidates
    ELSE Candidates
         \cup {[c EXCEPT !.selection_set = <<n>>] : c \in Candidates, n \in Chains(depth - 1)}

\* the selection sets validated: one chain, or a candidate after another field
SelectionSets ==
    {<<c>> : c \in Chains(MaxDepth)}
    \cup {<<p, c>> : p \in {Field("name"), Field("bogusField")}, c \in Candidates}

\* the types a caller validates against
QueryRoots == {ChainGet(BuiltSample.classes, n) : n \in {"A", "B", "Node"}}

FragmentRoots == {ChainGet(BuiltSample.classes, n) : n \in {"A", "B"}}

Requests ==
    {[via |-> "query", root |-> r, selection_set |-> s] :
        r \in QueryRoots, s \in SelectionSets}
    \cup {[via |-> "fragment", root |-> r, selection_set |-> s] :
        r \in FragmentRoots, s \in SelectionSets}

InitValidate ==
    /\ heap = <<selector>>
    /\ last = NoCall
    /\ bs = BuiltSample
    /\ vreq \in Requests
    /\ vres = Idle

Query ==
    /\ vres = Idle
    /\ vreq.via = "query"
    /\ vres' \in query(bs.cls, vreq.selection_set, vreq.root)
    /\ UNCHANGED <<heap, last, vreq, bs>>

InlineFragment ==
    /\ vres = Idle
    /\ vreq.via = "fragment"
    /\ vres' \in ObjectMeta_getitem(bs.cls, vreq.root, vreq.selection_set)
    /\ UNCHANGED <<heap, last, vreq, bs>>

NextValidate == Query \/ InlineFragment

SpecValidate == InitValidate /\ [][NextValidate]_vars

\* ------------------------------------------------- validation's properties

\* the schema definitions of the type a runtime type was built from: its own,
\* then those of the interfaces it implements
DefsOf(type_) ==
    LET own == SelectSeq(SampleTypes, LAMBDA tp :
                    /\ tp.kind \in {"Object", "Interface"}
                    /\ ChainGet(bs.classes, tp.name) = type_)
    IN  own \o SelectSeq(SampleTypes, LAMBDA tp :
                    /\ tp.kind = "Interface"
                    /\ \E i \in DOMAIN own : tp.name \in Range(own[i].interfaces))

\* the fields the schema declares for a runtime type, inherited ones included
DeclaredFields(type_) ==
    LET defs == DefsOf(type_) IN Flatten([i \in DOMAIN defs |-> defs[i].fields])

DeclaredNames(type_) == {f.name : f \in Range(DeclaredFields(type_))}

DeclaredField(type_, name) ==
    LET fs == DeclaredFields(type_) IN fs[CHOOSE i \in DOMAIN fs : fs[i].name = name]

\* a call of _check_field that found a declared field, all of whose keyword
\* arguments the field declares
ChecksArguments(v) ==
    /\ v.name \in DeclaredNames(v.parent)
    /\ Keys(v.kwargs) \subseteq
         {a.name : a \in Range(DeclaredField(v.parent, v.name).args)}

\* the places, in declaration order, of the non-optional arguments not supplied
AbsentRequired(v) ==
    LET args == DeclaredField(v.parent, v.name).args
    IN  {i \in DOMAIN args : args[i].type.kind = "NON_NULL" /\ args[i].name \notin Keys(v.kwargs)}

Min(S) == CHOOSE x \in S : \A y \in S : x <= y

\* C1: validating a field f against a type T raises NoSuchField(T, f.name) if and
\* only if the schema declares no field of that name for T, inherited ones included.
C1_NoSuchFieldIffUndeclared ==
    vres # Idle =>
        \A i \in DOMAIN vres.trace :
            LET v == vres.trace[i]
            IN  (v.raised = Failure("NoSuchField", v.parent, "", v.name, VNone))
                    <=> (v.name \notin DeclaredNames(v.parent))

\* C2, as claimed: with only declared keys supplied, an absent non-optional
\* argument makes validation raise MissingArgument naming it; with none absent,
\* MissingArgument is not raised.
C2_MissingArgumentWheneverAbsent ==
    vres # Idle =>
        \A i \in DOMAIN vres.trace :
            LET v == vres.trace[i]
            IN  ChecksArguments(v) =>
                    LET args == DeclaredField(v.parent, v.name).args
                    IN  /\ AbsentRequired(v) # {} =>
                            /\ v.raised.err = "MissingArgument"
                            /\ v.raised.on = v.parent
                            /\ v.raised.field = v.name
                            /\ \E n \in AbsentRequired(v) : v.raised.name = args[n].name
                        /\ AbsentRequired(v) = {} => v.raised.err # "MissingArgument"

\* C2, amended: with only declared keys supplied, an absent non-optional argument
\* makes validation of the field fail: with MissingArgument(T, field, name) for
\* the first such argument in declaration order, unless an argument declared
\* before it was supplied and rejected (InvalidArgumentType carrying it, or the
\* TypeError of the instance check); with none absent, MissingArgument is not
\* raised.
C2_MissingArgumentInOrder ==
    vres # Idle =>
        \A i \in DOMAIN vres.trace :
            LET v == vres.trace[i]
            IN  ChecksArguments(v) =>
                    LET args == DeclaredField(v.parent, v.name).args
                        first == Min(AbsentRequired(v))
                    IN  /\ AbsentRequired(v) # {} =>
                            \/ v.raised = Failure("MissingArgument", v.parent, v.name,
                                                  args[first].name, VNone)
                            \/ \E j \in 1 .. (first - 1) :
                                /\ args[j].name \in Keys(v.kwargs)
                                /\ \/ v.raised = Failure("InvalidArgumentType", v.parent,
                                                         v.name, args[j].name,
                                                         KwargsGet(v.kwargs, args[j].name))
                                   \/ v.raised.err = "TypeError"
                        /\ AbsentRequired(v) = {} => v.raised.err # "MissingArgument"

C2_Witness ==
    /\ vres # Idle
    /\ \E i \in DOMAIN vres.trace :
        LET v == vres.trace[i]
        IN  /\ v.name = "f"
            /\ v.kwargs = <<Kw("flag", VBool(TRUE))>>
            /\ v.raised = Failure("MissingArgument", v.parent, "f", "n", VNone)
            /\ vres.out = v.raised

\* C3: for a supplied value of a declared argument, of whatever declared type,
\* validation raises InvalidArgumentType or nothing, never another failure; and
\* a string for a Boolean argument raises InvalidArgumentType carrying the string.
C3_InvalidArgumentTypeOnly ==
    vres # Idle =>
        \A i \in DOMAIN vres.trace :
            LET v == vres.trace[i]
            IN  ChecksArguments(v) =>
                    /\ v.raised.err \in {"", "MissingArgument", "InvalidArgumentType"}
                    /\ (v.name = "f" /\ "flag" \in Keys(v.kwargs)
                                     /\ KwargsGet(v.kwargs, "flag").t = "str") =>
                            v.raised = Failure("InvalidArgumentType", v.parent, "f", "flag",
                                               KwargsGet(v.kwargs, "flag"))

\* the kind a TypeRef comes down to under its NON_NULL and LIST wrappers
RECURSIVE RefKind(_)
RefKind(ref) == IF ref.kind \in {"NON_NULL", "LIST"} THEN RefKind(ref.of_type[1]) ELSE ref.kind

\* C4: a field of scalar return type selected with a non-empty nested selection
\* fails validation with InvalidSelection(T, field), whatever the nested names.
C4_InvalidSelectionOnScalar ==
    vres # Idle =>
        \A i \in DOMAIN vres.trace :
            LET v == vres.trace[i]
            IN  (/\ ChecksArguments(v)
                 /\ v.raised.err = ""
                 /\ v.nested
                 /\ RefKind(DeclaredField(v.parent, v.name).type) = "SCALAR") =>
                    vres.out = Failure("InvalidSelection", v.parent, v.name, "", VNone)

====
